---- MODULE Spec2Model ----
(***************************************************************************)
(* Model of notebooks/utils.py: the Sun-angle evaluator                    *)
(* get_critical_angles, the range reporter check_range, the allowability   *)
(* predicate calculate_allowable_map and the grid builder build_grid.      *)
(*                                                                         *)
(* Numbers.  The program computes in IEEE doubles.  The model computes in  *)
(* fixed point: a vector or matrix component x is held as the integer      *)
(* round(x * Scale), every product is rounded to that resolution (as every *)
(* floating-point product is rounded to its own), radians are held in      *)
(* micro-radians and the returned angles in micro-degrees.  A result of    *)
(* np.arcsin outside its domain is the float nan, kept as a value of its   *)
(* own: every comparison with it is False, as in IEEE arithmetic.          *)
(***************************************************************************)
EXTENDS Integers, Sequences, FiniteSets, TLC

(***************************************************************************)
(* Floating-point values                                                   *)
(***************************************************************************)
\* Resolution of a vector or matrix component: x is held as round(x * Scale).
Scale == 10000

\* Resolution of an angle: micro-degrees (and micro-radians) per unit.
Micro == 1000000

Abs(x) == IF x < 0 THEN -x ELSE x

\* np.sign on a finite number.
Sign(x) == IF x > 0 THEN 1 ELSE IF x < 0 THEN -1 ELSE 0

\* A float that is a number, and the float nan.
Num(x) == [nan |-> FALSE, val |-> x]

NaN == [nan |-> TRUE, val |-> 0]

\* IEEE comparisons: False as soon as one side is nan.
Lt(a, b) == ~a.nan /\ ~b.nan /\ a.val < b.val

Gt(a, b) == ~a.nan /\ ~b.nan /\ a.val > b.val

\* A faulty variant of FAbs that drops the absolute value.
FAbs_identity(a) == a

\* np.abs of a float: nan stays nan.
FAbs(a) == IF a.nan THEN NaN ELSE Num(Abs(a.val))

\* A product of two components, rounded to the resolution (half away from 0).
Mul(a, b) == Sign(a * b) * ((Abs(a * b) + Scale \div 2) \div Scale)

\* round(sin(d degrees) * Scale) for d = 0..90.
SinTable ==
  << 0, 175, 349, 523, 698, 872, 1045, 1219, 1392, 1564,
     1736, 1908, 2079, 2250, 2419, 2588, 2756, 2924, 3090, 3256,
     3420, 3584, 3746, 3907, 4067, 4226, 4384, 4540, 4695, 4848,
     5000, 5150, 5299, 5446, 5592, 5736, 5878, 6018, 6157, 6293,
     6428, 6561, 6691, 6820, 6947, 7071, 7193, 7314, 7431, 7547,
     7660, 7771, 7880, 7986, 8090, 8192, 8290, 8387, 8480, 8572,
     8660, 8746, 8829, 8910, 8988, 9063, 9135, 9205, 9272, 9336,
     9397, 9455, 9511, 9563, 9613, 9659, 9703, 9744, 9781, 9816,
     9848, 9877, 9903, 9925, 9945, 9962, 9976, 9986, 9994, 9998,
     10000 >>

\* sin and cos of an angle in whole degrees (degrees=True), by quadrant.
Sin(d) ==
  LET m == d % 360
  IN  IF m <= 90 THEN SinTable[m + 1]
      ELSE IF m <= 180 THEN SinTable[180 - m + 1]
      ELSE IF m <= 270 THEN -SinTable[m - 180 + 1]
      ELSE -SinTable[360 - m + 1]

Cos(d) == Sin(d + 90)

\* d degrees in micro-radians, rounded down (pi/180 = 0.01745329...).
RadOfDeg(d) == (d * 1745329) \div 100

\* The d in lo..hi-1 with sin(d) <= a < sin(d + 1), for sin(lo) <= a < sin(hi).
RECURSIVE WholeDegrees(_, _, _)
WholeDegrees(a, lo, hi) ==
  IF hi - lo <= 1 THEN lo
  ELSE IF a < SinTable[(lo + hi) \div 2 + 1]
       THEN WholeDegrees(a, lo, (lo + hi) \div 2)
       ELSE WholeDegrees(a, (lo + hi) \div 2, hi)

\* The angle of sine a, in micro-radians, between d and d + 1 degrees.
Interpolate(a, d) ==
  RadOfDeg(d) + ((a - SinTable[d + 1]) * (RadOfDeg(d + 1) - RadOfDeg(d)))
                  \div (SinTable[d + 2] - SinTable[d + 1])

\* np.arcsin of a component, in micro-radians: nan outside [-1, 1] (numpy
\* warns "invalid value encountered in arcsin" and returns nan); inside, the
\* inverse of the sine table, linear between two whole degrees.
arcsin(x) ==
  LET a == Abs(x)
  IN  IF a > Scale THEN NaN
      ELSE IF a = Scale THEN Num(Sign(x) * RadOfDeg(90))
      ELSE Num(Sign(x) * Interpolate(a, WholeDegrees(a, 0, 90)))

\* The conversion factor of lines 40-41, 57.296, in thousandths.
DegPerRad == 57296

\* 57.296 * a for a in micro-radians: micro-degrees (rounded towards 0).
ToDegrees(a) ==
  IF a.nan THEN NaN
  ELSE LET m == Abs(a.val)
       IN  Num(Sign(a.val) * ((m \div 1000) * DegPerRad
                              + ((m % 1000) * DegPerRad) \div 1000))

\* A whole number of degrees as a float in micro-degrees.
Deg(d) == Num(d * Micro)

(***************************************************************************)
(* Python values                                                           *)
(***************************************************************************)
\* An object: its type, and for a number or an array its shape (<<>> for a
\* number) and its elements in row-major order, for a string its text.
Obj(type, shape, v, s) == [type |-> type, shape |-> shape, v |-> v, s |-> s]

PyInt(x) == Obj("int", <<>>, <<x>>, "")

PyFloat(x) == Obj("float", <<>>, <<x>>, "")

NpInteger(x) == Obj("integer", <<>>, <<x>>, "")

NdArray(shape, v) == Obj("ndarray", shape, v, "")

PyList(v) == Obj("list", <<Len(v)>>, v, "")

PyStr(s) == Obj("str", <<>>, <<>>, s)

PyNone == Obj("NoneType", <<>>, <<>>, "")

\* The number of elements of a shape.
RECURSIVE Size(_)
Size(shape) == IF shape = <<>> THEN 1 ELSE Head(shape) * Size(Tail(shape))

\* What a call gives back: a value, or the exception it raises with its
\* argument.
Return(x) == [exc |-> "none", arg |-> PyNone, value |-> x]

Raise(e, a) == [exc |-> e, arg |-> a, value |-> <<>>]

(***************************************************************************)
(* scipy.spatial.transform.Rotation, as rotation matrices                  *)
(***************************************************************************)
\* The angles R.from_euler is given: a number, or a 1-d array of n numbers.
Scalar(x) == [scalar |-> TRUE, n |-> 1, v |-> <<x>>]

Array(n, v) == [scalar |-> FALSE, n |-> n, v |-> v]

\* -x, element by element.
Negate(a) == [scalar |-> a.scalar, n |-> a.n, v |-> [k \in 1..a.n |-> -a.v[k]]]

\* The elementary rotation about the x, y or z axis by `angle` degrees.
ElementaryMatrix(axis, angle) ==
  IF axis = "x"
  THEN << <<Scale, 0, 0>>, <<0, Cos(angle), -Sin(angle)>>, <<0, Sin(angle), Cos(angle)>> >>
  ELSE IF axis = "y"
  THEN << <<Cos(angle), 0, Sin(angle)>>, <<0, Scale, 0>>, <<-Sin(angle), 0, Cos(angle)>> >>
  ELSE << <<Cos(angle), -Sin(angle), 0>>, <<Sin(angle), Cos(angle), 0>>, <<0, 0, Scale>> >>

\* Entry (i, j) of the matrix product p . q, each product rounded.
Dot(p, q, i, j) ==
  Mul(p[i][1], q[1][j]) + Mul(p[i][2], q[2][j]) + Mul(p[i][3], q[3][j])

\* The matrix product p . q (a and b name the values of p and q).
MatMul(p, q) ==
  CHOOSE m \in { << <<Dot(a, b, 1, 1), Dot(a, b, 1, 2), Dot(a, b, 1, 3)>>,
                    <<Dot(a, b, 2, 1), Dot(a, b, 2, 2), Dot(a, b, 2, 3)>>,
                    <<Dot(a, b, 3, 1), Dot(a, b, 3, 2), Dot(a, b, 3, 3)>> >>
                  : a \in {p}, b \in {q} } : TRUE

\* The product of a matrix and a vector (a names the value of m).
MatVec(m, vec) ==
  CHOOSE u \in { << a[1][1] * vec[1] + a[1][2] * vec[2] + a[1][3] * vec[3],
                    a[2][1] * vec[1] + a[2][2] * vec[2] + a[2][3] * vec[3],
                    a[3][1] * vec[1] + a[3][2] * vec[2] + a[3][3] * vec[3] >>
                  : a \in {m} } : TRUE

\* R.from_euler(axis, angles, degrees=True): a single rotation for a number,
\* a stack of n rotations for an array.
from_euler(axis, angles) ==
  [err    |-> FALSE,
   single |-> angles.scalar,
   n      |-> angles.n,
   m      |-> [k \in 1..angles.n |-> ElementaryMatrix(axis, angles.v[k])]]

\* The failure of a composition of two stacks of different lengths.
RotationCountError == [err |-> TRUE, single |-> FALSE, n |-> 0, m |-> <<>>]

\* The composition of two rotations or stacks a and b that are no failures.
Product(a, b) ==
  IF ~(a.n = b.n \/ a.n = 1 \/ b.n = 1) THEN RotationCountError
  ELSE [err    |-> FALSE,
        single |-> a.single /\ b.single,
        n      |-> IF a.n >= b.n THEN a.n ELSE b.n,
        m      |-> [k \in 1..(IF a.n >= b.n THEN a.n ELSE b.n) |->
                      MatMul(a.m[IF a.n = 1 THEN 1 ELSE k],
                             b.m[IF b.n = 1 THEN 1 ELSE k])]]

\* p * q: the composition that applies q first and p second, of matrix
\* p . q.  One rotation is broadcast against a stack; two stacks must have
\* one length.  (a and b name the values of p and q.)
Compose(p, q) ==
  CHOOSE c \in { IF a.err \/ b.err THEN RotationCountError ELSE Product(a, b)
                  : a \in {p}, b \in {q} } : TRUE

\* rot.apply(vec) under np.atleast_2d: one row per rotation.
Apply(rot, vec) == [k \in 1..rot.n |-> MatVec(rot.m[k], vec)]

(***************************************************************************)
(* get_critical_angles                                                     *)
(***************************************************************************)
\* line 35
vsun == <<0, 0, -1>>

\* A faulty variant of rfinal that composes in the opposite order.
rfinal_reversed(dlong, decl, roll) ==
  Compose(Compose(from_euler("x", Negate(dlong)), from_euler("y", Negate(decl))),
          from_euler("z", Negate(roll)))

\* lines 30-33: the composed rotation, roll outermost and dlong innermost.
rfinal(dlong, decl, roll) ==
  Compose(Compose(from_euler("z", Negate(roll)), from_euler("y", Negate(decl))),
          from_euler("x", Negate(dlong)))

\* line 36: the Sun vector in spacecraft coordinates, one row per rotation.
vsunf(dlong, decl, roll) == Apply(rfinal(dlong, decl, roll), vsun)

\* line 39: np.sign(x).astype(int) of a row (u names the value of row).
SignX(row) == CHOOSE y \in {Sign(u[1]) : u \in {row}} : TRUE

\* line 40: 57.296 * np.arcsin(z) of a row.
SunAngle(row) == CHOOSE y \in {ToDegrees(arcsin(u[3])) : u \in {row}} : TRUE

\* line 41: 57.296 * np.abs(np.arcsin(y)) of a row.
SunAngleSC(row) == CHOOSE y \in {ToDegrees(FAbs(arcsin(u[2]))) : u \in {row}} : TRUE

\* The message of the error Rotation.__mul__ raises.
RotationCountMessage ==
  PyStr("Expected equal number of rotations in both or a single rotation in either object")

\* The first n values of f, as a sequence.
RECURSIVE Tuple(_, _)
Tuple(f, n) == IF n = 0 THEN <<>> ELSE Append(Tuple(f, n - 1), f[n])

\* lines 37-42: the three diagnostics of the n rows v, each an array with one
\* entry per row.
Angles(v, n) ==
  [sign_x       |-> NdArray(<<n>>, [k \in 1..n |-> SignX(v[k])]),
   sun_angle    |-> NdArray(<<n>>, [k \in 1..n |-> SunAngle(v[k])]),
   sun_angle_SC |-> NdArray(<<n>>, [k \in 1..n |-> SunAngleSC(v[k])])]

\* lines 36-42: the diagnostics of a composed rotation; the error of the
\* composition propagates.  (v names the value of vsunf.)
Diagnostics(rot) ==
  IF rot.err
  THEN Raise("ValueError", RotationCountMessage)
  ELSE Return(CHOOSE ans \in {Angles(v, rot.n) : v \in {Tuple(Apply(rot, vsun), rot.n)}} : TRUE)

\* lines 30-42 (rot names the value of rfinal).
get_critical_angles(dlong, decl, roll) ==
  CHOOSE res \in {Diagnostics(rot) : rot \in {rfinal(dlong, decl, roll)}} : TRUE

(***************************************************************************)
(* check_range                                                             *)
(***************************************************************************)
\* "%6.2f" of a float in micro-degrees: hundredths of a degree, to nearest.
Fmt2(a) ==
  IF a.nan THEN NaN
  ELSE Num(Sign(a.val) * ((Abs(a.val) + 5000) \div 10000))

\* A faulty variant of range_stop that leaves the last day out.
range_stop_exclusive(ndays) == ndays

\* line 62: the end of range(-ndays, ndays + 1, 1).
range_stop(ndays) == ndays + 1

\* line 63
check_range_ans(dlong, decl, roll, i) ==
  get_critical_angles(Scalar(dlong + i), Scalar(decl), Scalar(roll)).value

\* lines 64-72: the line printed for the diagnostics ans of day offset i.
check_range_print(ans, ylim, i) ==
  [i            |-> i,
   sign_x       |-> ans.sign_x.v[1],
   sun_angle    |-> Fmt2(ans.sun_angle.v[1]),
   sun_angle_SC |-> Fmt2(ans.sun_angle_SC.v[1]),
   cx           |-> IF ans.sign_x.v[1] < 0 THEN "Sun on -X" ELSE "",
   cy           |-> IF Gt(ans.sun_angle_SC.v[1], Deg(ylim))
                    THEN "Sun > Y angle limit" ELSE "",
   cz           |-> IF Gt(ans.sun_angle.v[1], Deg(-5))
                    THEN "Sun above sunshade" ELSE ""]

\* lines 63-72: one iteration of the loop.
check_range_line(dlong, decl, roll, ylim, i) ==
  CHOOSE line \in {check_range_print(ans, ylim, i)
                     : ans \in {check_range_ans(dlong, decl, roll, i)}} : TRUE

(***************************************************************************)
(* calculate_allowable_map                                                 *)
(***************************************************************************)
\* dlong - ndays and dlong + ndays, element by element.
AddScalar(a, k) ==
  [shape |-> a.shape, v |-> [j \in 1..Size(a.shape) |-> a.v[j] + k]]

\* np.asarray([a, b, c]) of three values of one shape: a new leading axis.
Stack3(a, b, c) ==
  [shape |-> <<3>> \o a.shape,
   v     |-> [j \in 1..(3 * Size(a.shape)) |->
                IF j <= Size(a.shape) THEN a.v[j]
                ELSE IF j <= 2 * Size(a.shape) THEN b.v[j - Size(a.shape)]
                ELSE c.v[j - 2 * Size(a.shape)]]]

\* x.ravel(): the elements in row-major order, as a 1-d array.
ravel(a) == Array(Size(a.shape), a.v)

\* lines 108-115: the three conditions, element by element.
Conditions(ans, ylim) ==
  NdArray(ans.sign_x.shape,
          [k \in 1..Size(ans.sign_x.shape) |->
              /\ ans.sign_x.v[k] > 0
              /\ Lt(ans.sun_angle.v[k], Deg(-5))
              /\ Lt(ans.sun_angle_SC.v[k], Deg(ylim))])

\* A faulty variant of AllAxis0 that reads the middle time point only.
AllAxis0_middle(x, shape3) ==
  NdArray(Tail(shape3),
          [c \in 1..Size(Tail(shape3)) |-> x.v[Size(Tail(shape3)) + c]])

\* lines 116-117: .reshape(shape3).all(axis=0), shape3 = (3,) + shape: the
\* element c of the result is the conjunction over the leading axis.
AllAxis0(x, shape3) ==
  NdArray(Tail(shape3),
          [c \in 1..Size(Tail(shape3)) |->
              \A t \in 0..(Head(shape3) - 1) : x.v[t * Size(Tail(shape3)) + c]])

\* The defaults of ylim and ndays (line 75).
DefaultYlim == 15

DefaultNdays == 14

\* lines 92-94
dlong3(dlong, ndays) == Stack3(AddScalar(dlong, -ndays), dlong, AddScalar(dlong, ndays))

decl3(decl) == Stack3(decl, decl, decl)

\* A faulty variant of roll3 that repeats each roll three times in place
\* (np.repeat) instead of stacking three copies of the array.
roll3_repeat(roll) ==
  [shape |-> <<3>> \o roll.shape,
   v     |-> [j \in 1..(3 * Size(roll.shape)) |-> roll.v[((j - 1) \div 3) + 1]]]

\* lines 100-102
roll3(roll) == Stack3(roll, roll, roll)

\* A faulty variant of map_angles that falls back to roll 0 for anything but
\* a number or an array.
map_angles_fallback(dlong, decl, roll, ndays) ==
  IF roll.type \in {"float", "int", "integer"}
  THEN get_critical_angles(ravel(dlong3(dlong, ndays)), ravel(decl3(decl)),
                           Scalar(roll.v[1]))
  ELSE IF roll.type = "ndarray"
  THEN get_critical_angles(ravel(dlong3(dlong, ndays)), ravel(decl3(decl)),
                           ravel(roll3(roll)))
  ELSE get_critical_angles(ravel(dlong3(dlong, ndays)), ravel(decl3(decl)),
                           Scalar(0))

\* lines 95-107: the diagnostics at the three time points of every cell, by
\* the type of roll.
map_angles(dlong, decl, roll, ndays) ==
  IF roll.type \in {"float", "int", "integer"}
  THEN get_critical_angles(ravel(dlong3(dlong, ndays)), ravel(decl3(decl)),
                           Scalar(roll.v[1]))
  ELSE IF roll.type = "ndarray"
  THEN get_critical_angles(ravel(dlong3(dlong, ndays)), ravel(decl3(decl)),
                           ravel(roll3(roll)))
  ELSE Raise("ValueError", roll)

\* lines 108-118: the map of the diagnostics ans over a grid of shape3.
AllowableMap(ans, ylim, shape3) ==
  IF ans.exc # "none" THEN ans
  ELSE IF Size(ans.value.sign_x.shape) # Size(shape3)
  THEN Raise("ValueError", PyStr("cannot reshape array"))
  ELSE Return(AllAxis0(Conditions(ans.value, ylim), shape3))

\* lines 92-119 (ans names the value of map_angles).
calculate_allowable_map(dlong, decl, roll, ylim, ndays) ==
  CHOOSE res \in {AllowableMap(ans, ylim, dlong3(dlong, ndays).shape)
                    : ans \in {map_angles(dlong, decl, roll, ndays)}} : TRUE

(***************************************************************************)
(* build_grid                                                              *)
(***************************************************************************)
\* The model sweeps every GridThin-th point of each axis of the (dlong, decl)
\* grid and every RollThin-th roll.
GridThin == 30

RollThin == 12

\* The strides of line 123 and the roll step of line 124.
GridStride == 2

RollStep == 5

\* np.arange(start, stop, step)
Arange(start, stop, step) ==
  [k \in 1..((stop - start + step - 1) \div step) |-> start + (k - 1) * step]

\* x[::step]
Slice(x, step) ==
  [k \in 1..((Len(x) + step - 1) \div step) |-> x[(k - 1) * step + 1]]

\* lines 122-123: the two axes of np.mgrid[-180:179, -90:90], sliced.
DlongAxis == Slice(Arange(-180, 179, 1), GridStride * GridThin)

DeclAxis == Slice(Arange(-90, 90, 1), GridStride * GridThin)

\* lines 122-123: dlong varies along the first axis, decl along the second.
GridDlong ==
  NdArray(<<Len(DlongAxis), Len(DeclAxis)>>,
          [j \in 1..(Len(DlongAxis) * Len(DeclAxis)) |->
                   DlongAxis[((j - 1) \div Len(DeclAxis)) + 1]])

GridDecl ==
  NdArray(<<Len(DlongAxis), Len(DeclAxis)>>,
          [j \in 1..(Len(DlongAxis) * Len(DeclAxis)) |->
                   DeclAxis[((j - 1) % Len(DeclAxis)) + 1]])

\* line 124
rolls == Slice(Arange(-180, 179, RollStep), RollThin)

\* x[mask]: the elements of x where mask is True, in row-major order.
RECURSIVE Masked(_, _, _)
Masked(x, mask, j) ==
  IF j > Len(x) THEN <<>>
  ELSE (IF mask[j] THEN <<x[j]>> ELSE <<>>) \o Masked(x, mask, j + 1)

\* np.ones(n) * roll
Filled(n, x) == [k \in 1..n |-> x]

\* A faulty variant of Columns that swaps the first two columns.
Columns_swapped(a, b, c) == [k \in 1..Len(a) |-> <<b[k], a[k], c[k]>>]

\* np.vstack([a, b, c]).T of three 1-d arrays of one length: one row per
\* element, three columns.
Columns(a, b, c) == [k \in 1..Len(a) |-> <<a[k], b[k], c[k]>>]

\* lines 131-132: the rows one roll contributes.
RollBlock(roll) ==
  LET allowable == calculate_allowable_map(GridDlong, GridDecl, NpInteger(roll),
                                           DefaultYlim, DefaultNdays).value
      dl        == Masked(GridDlong.v, allowable.v, 1)
      de        == Masked(GridDecl.v, allowable.v, 1)
  IN  Columns(dl, de, Filled(Len(dl), roll))

\* line 133: np.vstack(r), the blocks one under the other.
RECURSIVE VStack(_)
VStack(blocks) ==
  IF blocks = <<>> THEN <<>> ELSE Head(blocks) \o VStack(Tail(blocks))

(***************************************************************************)
(* The calls                                                               *)
(***************************************************************************)
\* pc: where the caller is; call: the function called and its arguments;
\* ret: what the call gave back; i, out: the loop variable of check_range and
\* the lines printed; kdx, r: the loop of build_grid and its list r; file:
\* allowable_pointings_grid.p.
VARIABLES pc, call, ret, i, out, kdx, r, file

vars == <<pc, call, ret, i, out, kdx, r, file>>

\* Angles the evaluator is called with.
Dlongs == {-180, -145, -90, -14, 0, 14, 90, 180}

Decls == {-90, -30, 0, 30, 90}

Rolls == {-180, -90, -55, 0, 90}

\* The arguments of check_range: ndays up to MaxNdays and the default.
MaxNdays == 2

RangeDlongs == {0, 14, -20}

RangeDecls == {0, 30, 90}

RangeRolls == {0, 90}

Ylims == {0, DefaultYlim}

RangeNdays == (0..MaxNdays) \cup {DefaultNdays}

\* The arguments of calculate_allowable_map: grids of at most MaxLen cells.
MaxLen == 2

Shapes ==
  {<<>>} \cup {<<n>> : n \in 1..MaxLen}
         \cup {<<a, b>> : a \in 1..MaxLen, b \in 1..MaxLen}

GridShapes == {s \in Shapes : Size(s) <= MaxLen}

\* The (dlong, decl) of a cell, and the roll of a cell.
Cells == {<<0, 30>>, <<14, 30>>}

CellRolls == {0, 90}

MapYlims == {10, DefaultYlim}

MapNdays == {0, DefaultNdays}

SeqsOf(S, n) == [1..n -> S]

\* The rolls passed: numbers, arrays of every shape, and other objects.
RollObjects ==
  {PyInt(x) : x \in CellRolls} \cup {PyFloat(x) : x \in CellRolls}
    \cup UNION {{NdArray(s, v) : v \in SeqsOf(CellRolls, Size(s))} : s \in GridShapes}
    \cup {PyList(<<0, 0>>), PyStr("0"), PyNone}

NoFile == [exists |-> FALSE, rows |-> <<>>]

Init ==
  /\ pc = "idle"
  /\ call = [fn |-> "none"]
  /\ ret = Return(<<>>)
  /\ i = 0
  /\ out = <<>>
  /\ kdx = 0
  /\ r = <<>>
  /\ file = NoFile

CallGetCriticalAngles ==
  /\ pc = "idle"
  /\ \E dlong \in Dlongs, decl \in Decls, roll \in Rolls :
       /\ call' = [fn |-> "get_critical_angles", dlong |-> dlong, decl |-> decl,
                   roll |-> roll]
       /\ ret' = get_critical_angles(Scalar(dlong), Scalar(decl), Scalar(roll))
  /\ pc' = "done"
  /\ UNCHANGED <<i, out, kdx, r, file>>

CallCalculateAllowableMap ==
  /\ pc = "idle"
  /\ \E s \in GridShapes, roll \in RollObjects, ylim \in MapYlims, ndays \in MapNdays :
       \E cells \in SeqsOf(Cells, Size(s)) :
         LET dlong == NdArray(s, [c \in 1..Size(s) |-> cells[c][1]])
             decl  == NdArray(s, [c \in 1..Size(s) |-> cells[c][2]])
         IN  /\ call' = [fn |-> "calculate_allowable_map", dlong |-> dlong,
                         decl |-> decl, roll |-> roll, ylim |-> ylim, ndays |-> ndays]
             /\ ret' = calculate_allowable_map(dlong, decl, roll, ylim, ndays)
  /\ pc' = "done"
  /\ UNCHANGED <<i, out, kdx, r, file>>

\* line 62: range(-ndays, ndays + 1, 1) starts at -ndays.
CallCheckRange ==
  /\ pc = "idle"
  /\ \E dlong \in RangeDlongs, decl \in RangeDecls, roll \in RangeRolls,
        ylim \in Ylims, ndays \in RangeNdays :
       /\ call' = [fn |-> "check_range", dlong |-> dlong, decl |-> decl,
                   roll |-> roll, ylim |-> ylim, ndays |-> ndays]
       /\ i' = -ndays
  /\ pc' = "check_range"
  /\ out' = <<>>
  /\ UNCHANGED <<ret, kdx, r, file>>

\* lines 62-72: one iteration, which prints the line of offset i.
CheckRangeLoop ==
  /\ pc = "check_range"
  /\ i < range_stop(call.ndays)
  /\ out' = Append(out, check_range_line(call.dlong, call.decl, call.roll, call.ylim, i))
  /\ i' = i + 1
  /\ UNCHANGED <<pc, call, ret, kdx, r, file>>

\* line 62: the range is exhausted and the function returns None.
CheckRangeReturn ==
  /\ pc = "check_range"
  /\ ~(i < range_stop(call.ndays))
  /\ pc' = "done"
  /\ ret' = Return(<<>>)
  /\ UNCHANGED <<call, i, out, kdx, r, file>>

\* lines 122-127
CallBuildGrid ==
  /\ pc = "idle"
  /\ call' = [fn |-> "build_grid"]
  /\ pc' = "build_grid"
  /\ kdx' = 0
  /\ r' = <<>>
  /\ UNCHANGED <<ret, i, out, file>>

\* lines 128-132: one roll of the sweep.
BuildGridLoop ==
  /\ pc = "build_grid"
  /\ kdx < Len(rolls)
  /\ r' = Append(r, RollBlock(rolls[kdx + 1]))
  /\ kdx' = kdx + 1
  /\ UNCHANGED <<pc, call, ret, i, out, file>>

\* lines 133-134: the list is stacked and pickled.
BuildGridDump ==
  /\ pc = "build_grid"
  /\ ~(kdx < Len(rolls))
  /\ file' = [exists |-> TRUE, rows |-> VStack(r)]
  /\ pc' = "done"
  /\ ret' = Return(<<>>)
  /\ UNCHANGED <<call, i, out, kdx, r>>

Next ==
  \/ CallGetCriticalAngles
  \/ CallCalculateAllowableMap
  \/ CallCheckRange
  \/ CheckRangeLoop
  \/ CheckRangeReturn
  \/ CallBuildGrid
  \/ BuildGridLoop
  \/ BuildGridDump

Spec == Init /\ [][Next]_vars

\* The interpreter runs a started loop to its end.
FairSpec == Spec /\ WF_vars(CheckRangeLoop) /\ WF_vars(CheckRangeReturn)

(***************************************************************************)
(* Properties                                                              *)
(***************************************************************************)
IsNumber(roll) == roll.type \in {"float", "int", "integer"}

MapReturned ==
  pc = "done" /\ call.fn = "calculate_allowable_map" /\ ret.exc = "none"

\* The roll of cell c of a call whose roll is a number or has the grid's shape.
RollOf(roll, c) == IF IsNumber(roll) THEN roll.v[1] ELSE roll.v[c]

\* The three safety conditions at one orientation, each strict, on the
\* diagnostics of the evaluator called with three numbers.
SafeAt(dlong, decl, roll, ylim) ==
  LET ans == get_critical_angles(Scalar(dlong), Scalar(decl), Scalar(roll)).value
  IN  /\ ans.sign_x.v[1] > 0
      /\ ~ans.sun_angle.v[1].nan
      /\ ans.sun_angle.v[1].val < -5 * Micro
      /\ ~ans.sun_angle_SC.v[1].nan
      /\ ans.sun_angle_SC.v[1].val < ylim * Micro

\* C1: calculate_allowable_map returns True for a cell if and only if
\* sign_x > 0, sun_angle < -5 and sun_angle_SC < ylim all hold at dlong - ndays,
\* at dlong and at dlong + ndays, with the cell's decl and roll at all three.
C1_AllNineConditions ==
  (MapReturned /\ (IsNumber(call.roll) \/ call.roll.shape = call.dlong.shape))
  => \A c \in 1..Size(call.dlong.shape) :
       ret.value.v[c] =
         (\A t \in {-call.ndays, 0, call.ndays} :
            SafeAt(call.dlong.v[c] + t, call.decl.v[c], RollOf(call.roll, c), call.ylim))

\* A single orientation that passes the three conditions at dlong, fails one
\* at dlong + ndays, and is reported False.
C1_Witness ==
  /\ MapReturned
  /\ call.dlong.shape = <<>>
  /\ IsNumber(call.roll)
  /\ SafeAt(call.dlong.v[1], call.decl.v[1], call.roll.v[1], call.ylim)
  /\ ~SafeAt(call.dlong.v[1] + call.ndays, call.decl.v[1], call.roll.v[1], call.ylim)
  /\ ret.value.v[1] = FALSE

EvaluatorReturned ==
  pc = "done" /\ call.fn = "get_critical_angles" /\ ret.exc = "none"

\* The rotations of a vector about x, y and z by `angle` degrees.
RotX(angle, u) ==
  << u[1],
     Mul(Cos(angle), u[2]) - Mul(Sin(angle), u[3]),
     Mul(Sin(angle), u[2]) + Mul(Cos(angle), u[3]) >>

RotY(angle, u) ==
  << Mul(Cos(angle), u[1]) + Mul(Sin(angle), u[3]),
     u[2],
     Mul(Cos(angle), u[3]) - Mul(Sin(angle), u[1]) >>

RotZ(angle, u) ==
  << Mul(Cos(angle), u[1]) - Mul(Sin(angle), u[2]),
     Mul(Sin(angle), u[1]) + Mul(Cos(angle), u[2]),
     u[3] >>

\* Rz(-roll) after Ry(-decl) after Rx(-dlong), applied to (0, 0, -1).
ReferenceSun(dlong, decl, roll) ==
  RotZ(-roll, RotY(-decl, RotX(-dlong, <<0, 0, -Scale>>)))

\* The squared length of a vector.
Norm2(u) == u[1] * u[1] + u[2] * u[2] + u[3] * u[3]

\* The vector the evaluator computes for the call.
CallSun == vsunf(Scalar(call.dlong), Scalar(call.decl), Scalar(call.roll))[1]

\* C2: the Sun vector is Rz(-roll) after Ry(-decl) after Rx(-dlong) applied to
\* (0, 0, -1): exactly at multiples of 90 degrees, where it has unit length,
\* and to the rounding of the products (two units of the resolution in each
\* component, unit length to four) elsewhere; sign_x is the sign of its x,
\* sun_angle the arcsine of its z and sun_angle_SC the absolute arcsine of its
\* y, both converted to degrees by the factor of the program.
C2_RotationOrder ==
  EvaluatorReturned
  => /\ (call.dlong % 90 = 0 /\ call.decl % 90 = 0 /\ call.roll % 90 = 0)
          => /\ CallSun = ReferenceSun(call.dlong, call.decl, call.roll)
             /\ Norm2(CallSun) = Scale * Scale
     /\ \A c \in 1..3 :
          Abs(CallSun[c] - ReferenceSun(call.dlong, call.decl, call.roll)[c]) <= 2
     /\ Abs(Norm2(CallSun) - Scale * Scale) <= 4 * Scale
     /\ ret.value.sign_x.v = <<Sign(CallSun[1])>>
     /\ ret.value.sun_angle.v = <<ToDegrees(arcsin(CallSun[3]))>>
     /\ ret.value.sun_angle_SC.v = <<ToDegrees(FAbs(arcsin(CallSun[2])))>>

\* evaluate(0, 0, 0): the vector is (0, 0, -1) and sign_x is 0.
C2_Witness ==
  /\ EvaluatorReturned
  /\ call.dlong = 0 /\ call.decl = 0 /\ call.roll = 0
  /\ CallSun = <<0, 0, -Scale>>
  /\ ret.value.sign_x.v[1] = 0

\* C3: a roll that is neither a number nor an array makes
\* calculate_allowable_map raise ValueError carrying that roll, and nothing is
\* returned.
C3_InvalidRollRaises ==
  (pc = "done" /\ call.fn = "calculate_allowable_map"
     /\ ~IsNumber(call.roll) /\ call.roll.type # "ndarray")
  => /\ ret.exc = "ValueError"
     /\ ret.arg = call.roll
     /\ ret.value = <<>>

\* A call with a list as roll has raised.
C3_Witness ==
  /\ pc = "done" /\ call.fn = "calculate_allowable_map"
  /\ call.roll.type = "list"
  /\ ret.exc = "ValueError"
  /\ ret.arg = call.roll

\* C4: a roll array whose shape is not that of dlong/decl makes
\* calculate_allowable_map raise ValueError carrying that roll; no result is
\* returned.
C4_ShapeMismatchRaises ==
  (pc = "done" /\ call.fn = "calculate_allowable_map"
     /\ call.roll.type = "ndarray" /\ call.roll.shape # call.dlong.shape)
  => /\ ret.exc = "ValueError"
     /\ ret.arg = call.roll

\* 57.296 * asin(1), the largest magnitude of a returned angle, micro-degrees.
MaxAngle == ToDegrees(Num(RadOfDeg(90))).val

\* C5 as stated: sign_x is -1, 0 or 1, sun_angle is in [-90, 90] and
\* sun_angle_SC in [0, 90] degrees.
C5_RangesAsStated ==
  EvaluatorReturned
  => /\ ret.value.sign_x.v[1] \in {-1, 0, 1}
     /\ ~ret.value.sun_angle.v[1].nan
     /\ ret.value.sun_angle.v[1].val >= -90 * Micro
     /\ ret.value.sun_angle.v[1].val <= 90 * Micro
     /\ ~ret.value.sun_angle_SC.v[1].nan
     /\ ret.value.sun_angle_SC.v[1].val >= 0
     /\ ret.value.sun_angle_SC.v[1].val <= 90 * Micro

\* C5 amended: sign_x is -1, 0 or 1; sun_angle is nan or within 57.296 * pi/2
\* (90.0003 degrees) of 0; sun_angle_SC is nan or in [0, 57.296 * pi/2], never
\* negative.
C5_Ranges ==
  EvaluatorReturned
  => /\ ret.value.sign_x.v[1] \in {-1, 0, 1}
     /\ \/ ret.value.sun_angle.v[1].nan
        \/ /\ ret.value.sun_angle.v[1].val >= -MaxAngle
           /\ ret.value.sun_angle.v[1].val <= MaxAngle
     /\ \/ ret.value.sun_angle_SC.v[1].nan
        \/ /\ ret.value.sun_angle_SC.v[1].val >= 0
           /\ ret.value.sun_angle_SC.v[1].val <= MaxAngle
     /\ MaxAngle < 90 * Micro + 1000

\* An extreme: the y component of the vector is exactly -1 and sun_angle_SC
\* is 57.296 * asin(1), above 90 degrees.
C5_Witness ==
  /\ EvaluatorReturned
  /\ CallSun[2] = -Scale
  /\ ret.value.sun_angle_SC.v[1].val = MaxAngle
  /\ MaxAngle > 90 * Micro

\* The (dlong, decl, roll) grid build_grid sweeps.
SweptDlong == {x \in -180..178 : (x + 180) % (GridStride * GridThin) = 0}

SweptDecl == {x \in -90..88 : (x + 90) % (GridStride * GridThin) = 0}

SweptRoll == {x \in -180..178 : (x + 180) % (RollStep * RollThin) = 0}

\* calculate_allowable_map with the default limits on one orientation.
AllowableTriple(dlong, decl, roll) ==
  calculate_allowable_map(NdArray(<<>>, <<dlong>>), NdArray(<<>>, <<decl>>),
                          NpInteger(roll), DefaultYlim, DefaultNdays).value.v[1]

\* C6: the pickled array has three columns (dlong, decl, roll) and its rows
\* are exactly the allowable triples of the swept grid, each once.
C6_GridRows ==
  (pc = "done" /\ call.fn = "build_grid")
  => /\ file.exists
     /\ \A k \in 1..Len(file.rows) :
          /\ Len(file.rows[k]) = 3
          /\ file.rows[k][1] \in SweptDlong
          /\ file.rows[k][2] \in SweptDecl
          /\ file.rows[k][3] \in SweptRoll
          /\ AllowableTriple(file.rows[k][1], file.rows[k][2], file.rows[k][3])
     /\ \A dl \in SweptDlong, de \in SweptDecl, ro \in SweptRoll :
          AllowableTriple(dl, de, ro) => \E k \in 1..Len(file.rows) :
                                           file.rows[k] = <<dl, de, ro>>
     /\ \A k1, k2 \in 1..Len(file.rows) : file.rows[k1] = file.rows[k2] => k1 = k2

\* The file is written and holds the allowable triple (0, 30, 0).
C6_Witness ==
  /\ pc = "done" /\ call.fn = "build_grid"
  /\ file.exists
  /\ \E k \in 1..Len(file.rows) : file.rows[k] = <<0, 30, 0>>

\* The diagnostics check_range prints for day offset j: those of the evaluator
\* at dlong + j, to two decimals.
ExpectedLine(j) ==
  LET ans == get_critical_angles(Scalar(call.dlong + j), Scalar(call.decl),
                                 Scalar(call.roll)).value
  IN  <<j, ans.sign_x.v[1], Fmt2(ans.sun_angle.v[1]), Fmt2(ans.sun_angle_SC.v[1])>>

Printed(k) == <<out[k].i, out[k].sign_x, out[k].sun_angle, out[k].sun_angle_SC>>

\* While check_range runs, the lines printed are those of the offsets below
\* i and the last is the line of i - 1; when it has returned, they are the
\* lines of -ndays .. ndays, in order.
CheckRangeLines ==
  call.fn = "check_range"
  => /\ Len(out) = i + call.ndays
     /\ Len(out) > 0 => Printed(Len(out)) = ExpectedLine(i - 1)
     /\ pc = "done"
          => /\ Len(out) = 2 * call.ndays + 1
             /\ \A k \in 1..Len(out) : Printed(k) = ExpectedLine(k - call.ndays - 1)

\* C7: check_range prints one line for each day offset from -ndays to ndays,
\* in ascending order, the line of offset j with the diagnostics of
\* get_critical_angles(dlong + j, decl, roll), 2 * ndays + 1 lines in all, and
\* the loop ends after the line of ndays.
C7_OneLinePerDay ==
  /\ []CheckRangeLines
  /\ (pc = "check_range")
       ~> (pc = "done" /\ call.fn = "check_range" /\ Len(out) = 2 * call.ndays + 1)

\* check_range has returned after the 29 lines of a 14-day half sector.
C7_Witness ==
  /\ pc = "done" /\ call.fn = "check_range"
  /\ call.ndays = DefaultNdays
  /\ Len(out) = 29
  /\ out[1].i = -14 /\ out[29].i = 14

\* C8: the angles the evaluator returns are always defined numbers, never nan.
C8_AlwaysDefined ==
  EvaluatorReturned
  => /\ ~ret.value.sun_angle.v[1].nan
     /\ ~ret.value.sun_angle_SC.v[1].nan

\* calculate_allowable_map on the single orientation of cell c.
CellAlone(c) ==
  calculate_allowable_map(NdArray(<<>>, <<call.dlong.v[c]>>),
                          NdArray(<<>>, <<call.decl.v[c]>>),
                          PyFloat(RollOf(call.roll, c)), call.ylim, call.ndays)

\* C9: the result has the shape of the grid, the value of each cell is that
\* of the predicate on the cell's own (dlong, decl, roll), and a number as
\* roll gives what an array of the grid's shape filled with it gives.
C9_ElementWise ==
  (MapReturned /\ (IsNumber(call.roll) \/ call.roll.shape = call.dlong.shape))
  => /\ ret.value.shape = call.dlong.shape
     /\ Len(ret.value.v) = Size(call.dlong.shape)
     /\ \A c \in 1..Size(call.dlong.shape) : ret.value.v[c] = CellAlone(c).value.v[1]
     /\ IsNumber(call.roll)
          => ret = calculate_allowable_map(
                     call.dlong, call.decl,
                     NdArray(call.dlong.shape,
                             [c \in 1..Size(call.dlong.shape) |-> call.roll.v[1]]),
                     call.ylim, call.ndays)

\* Two cells of one (dlong, decl) with different rolls and different results.
C9_Witness ==
  /\ MapReturned
  /\ call.roll.type = "ndarray" /\ call.roll.shape = call.dlong.shape
  /\ Size(call.dlong.shape) >= 2
  /\ call.dlong.v[1] = call.dlong.v[2] /\ call.decl.v[1] = call.decl.v[2]
  /\ call.roll.v[1] # call.roll.v[2]
  /\ ret.value.v[1] # ret.value.v[2]

\* A line without alarm.
NoAlarm(line) == line.cx = "" /\ line.cy = "" /\ line.cz = ""

\* Whether calculate_allowable_map reports the orientation of the call allowable.
CallAllowable ==
  calculate_allowable_map(NdArray(<<>>, <<call.dlong>>), NdArray(<<>>, <<call.decl>>),
                          PyInt(call.roll), call.ylim, call.ndays).value.v[1]

\* The line printed for offset j.
LineOf(j) == out[j + call.ndays + 1]

\* C10: a line of check_range carries no alarm if and only if sign_x > 0,
\* sun_angle < -5 and sun_angle_SC < ylim hold at its offset; so an
\* orientation without alarm at offsets -ndays, 0 and ndays is one
\* calculate_allowable_map reports allowable, and conversely.
C10_AlarmsAsStated ==
  call.fn = "check_range"
  => /\ \A k \in 1..Len(out) :
          NoAlarm(out[k]) = SafeAt(call.dlong + out[k].i, call.decl, call.roll, call.ylim)
     /\ pc = "done"
          => CallAllowable = (\A j \in {-call.ndays, 0, call.ndays} : NoAlarm(LineOf(j)))
====
